---- MODULE Spec2Model ----
(***************************************************************************)
(* Record-level concurrency control of src/cc/src/core/faster-c.cc:        *)
(* GenLock / AtomicGenLock, the Value slot, UpsertContext (Put, PutAtomic), *)
(* RmwContext (RmwInitial, RmwCopy, RmwAtomic), ReadContext (GetAtomic).   *)
(*                                                                         *)
(* The lock word keeps the source's layout (gen_number in the low bits,    *)
(* then locked, then replaced) and its arithmetic (fetch_sub / fetch_add   *)
(* modulo the word size); only the width of gen_number is scaled down from *)
(* 62 bits to GenBits bits.                                                *)
(***************************************************************************)
EXTENDS Integers, Sequences, FiniteSets, TLC

\* ---------------------------------------------------------------- bounds
MaxLen == 2
MaxSeqCalls == 3
GenBits == 3

\* sizeof(Value): gen_lock_, size_ and length_, 8 bytes each
HeaderSize == 24

\* the threads that update the slot in place, and the merge callbacks they pass
Writers == {"w1", "w2"}
Fns == {"append", "join", "overlay"}

\* payloads: every caller passes bytes of its own, so that the bytes of a
\* payload tell who wrote it; the lengths range over 0..MaxLen
ByteOf(t) == IF t = "w1" THEN 1 ELSE 2
InitByte == 3
Sep == 4
Fill(b, n) == [i \in 1..n |-> b]
PayloadsOf(b) == {Fill(b, n) : n \in 0..MaxLen}

\* ------------------------------------------------------------- GenLock
GenLimit == 2^GenBits
LockedBit == 2^GenBits
ReplacedBit == 2^(GenBits + 1)
WordLimit == 2^(GenBits + 2)

gen_number(c) == c % GenLimit
locked(c) == (c \div LockedBit) % 2
replaced(c) == (c \div ReplacedBit) % 2

\* std::atomic<uint64_t>::fetch_sub / fetch_add: wrap modulo the word size
fetch_sub(c, d) == (c + WordLimit - d) % WordLimit
fetch_add(c, d) == (c + d) % WordLimit

\* faulty variants of Expected: line 85, respectively line 84, left out
ExpectedNoReplacedClear(c) == gen_number(c) + replaced(c) * ReplacedBit
ExpectedNoLockedClear(c) == gen_number(c) + locked(c) * LockedBit
\* try_lock, lines 83-85: expected = load() with locked and replaced cleared
Expected(c) == gen_number(c)

\* faulty variant of Desired: the acquisition also advances the generation
DesiredBumping(e) == e - locked(e) * LockedBit + LockedBit + 1
\* try_lock, lines 86-87: desired = expected with locked set
Desired(e) == e - locked(e) * LockedBit + LockedBit

\* faulty variant of ObservedReplaced: a held lock reported as replaced
ObservedReplacedOrLocked(c) == replaced(c) = 1 \/ locked(c) = 1
\* try_lock, lines 92-94: the replaced out-parameter after a failed CAS
ObservedReplaced(c) == replaced(c) = 1

\* faulty variant of Unlock: deltas that leave gen_number alone
UnlockNoGenBump(c, r) ==
  IF r THEN fetch_sub(c, LockedBit)
  ELSE fetch_add(c, ReplacedBit - LockedBit)
\* faulty variant of Unlock: the fetch_add delta does not take locked off
UnlockKeepsLocked(c, r) ==
  IF r THEN fetch_sub(c, LockedBit - 1)
  ELSE fetch_add(c, ReplacedBit + 1)
\* unlock, lines 97-107: replaced = true takes the fetch_sub branch (lines
\* 98-101), replaced = false the fetch_add branch (lines 102-105)
Unlock(c, r) ==
  IF r THEN fetch_sub(c, LockedBit - 1)
  ELSE fetch_add(c, ReplacedBit - LockedBit + 1)

\* --------------------------------------------------------------- helpers
Take(s, n) == SubSeq(s, 1, n)

\* the caller's merge callback cb_(old, old_length, modification, length, out):
\* append writes old then modification, join puts a separator between them,
\* overlay writes the modification over the first bytes of old and keeps the
\* rest of old (its output is as long as the longer of the two)
Merge(fn, old, mod) ==
  IF fn = "append" THEN old \o mod
  ELSE IF fn = "join" THEN old \o <<Sep>> \o mod
  ELSE IF Len(mod) >= Len(old) THEN mod
  ELSE mod \o SubSeq(old, Len(mod) + 1, Len(old))

\* a store of byte b at offset i (1-based) of the slot's buffer
StoreByte(b, i, x) == [b EXCEPT ![i] = x]

VARIABLES
  control,      \* Value::gen_lock_ (the atomic word)
  size,         \* Value::size_
  length,       \* Value::length_
  buf,          \* the bytes behind Value::buffer()
  pc,           \* position of each writer inside PutAtomic / RmwAtomic
  op,           \* the context of each writer's current call
  expected,     \* try_lock's local `expected`
  new_length,   \* the length the current call needs (length_ / new_length)
  idx,          \* bytes already copied by the current call
  ret,          \* return value of each writer's last call
  rpc,          \* position of the reader inside GetAtomic
  before,       \* GetAtomic's local `before`
  rlength,      \* GetAtomic's local `length`
  got,          \* the read callback: <<length, bytes read so far, returned, status>>
  initial,      \* the context of the initial write (Put, RmwInitial or RmwCopy)
  old_value,    \* the slot RmwCopy reads (its old_value argument)
  committed,    \* history: the payload of the latest complete update
  hist,         \* history: all payloads completely written so far
  superseded,   \* history: a call found the capacity insufficient and returned
  calls         \* history: number of in-place calls begun

slot == <<control, size, length, buf, initial, old_value>>
wloc == <<pc, op, expected, new_length, idx, ret>>
rloc == <<rpc, before, rlength, got>>
ghost == <<committed, hist, superseded, calls>>
vars == <<control, size, length, buf, initial, old_value, pc, op, expected, new_length,
          idx, ret, rpc, before, rlength, got, committed, hist, superseded,
          calls>>

NoOp == [kind |-> "none", input |-> <<>>, fn |-> "append"]
NoGot == <<0, <<>>, FALSE, "Ok">>

\* ReadContext::Get: the callback receives buffer() and length_
Get == <<length, Take(buf, length)>>

Published == size # 0
capacity == size - HeaderSize

\* Value::Value(): a zeroed Value
NoValue == [control |-> 0, size |-> 0, length |-> 0, buf |-> <<>>]

\* the old records RmwCopy is given: a payload written by an earlier Put, and
\* the lock word one in-place call left behind (either branch of unlock)
OldByte == 5
OldValues ==
  {[control |-> Unlock(Desired(0), r), size |-> HeaderSize + Len(p),
    length |-> Len(p), buf |-> p] : r \in BOOLEAN, p \in PayloadsOf(OldByte)}

\* a fresh, zeroed slot; no call has begun
Fresh ==
  /\ control = 0 /\ size = 0 /\ length = 0 /\ buf = <<>>
  /\ initial = NoOp
  /\ pc = [t \in Writers |-> "idle"]
  /\ op = [t \in Writers |-> NoOp]
  /\ expected = [t \in Writers |-> 0]
  /\ new_length = [t \in Writers |-> 0]
  /\ idx = [t \in Writers |-> 0]
  /\ ret = [t \in Writers |-> FALSE]
  /\ rpc = "idle" /\ before = 0 /\ rlength = 0 /\ got = NoGot
  /\ committed = <<0, <<>> >>
  /\ hist = {}
  /\ superseded = FALSE
  /\ calls = 0

\* the key has no earlier record
Init == Fresh /\ old_value = NoValue

\* the key has an earlier record, which RmwCopy will read
InitCopy == Fresh /\ old_value \in OldValues

\* value_size(), lines 215-217 / 282-284: the bytes the context asks the
\* store to allocate for the slot it is about to write
value_size(ctx) == HeaderSize + Len(ctx.input)
allocated == value_size(initial)

\* ------------------------------------------------- creation of the slot
\* UpsertContext::Put on the fresh slot
Put(input) ==
  /\ ~Published
  /\ control' = 0
  /\ size' = HeaderSize + Len(input)
  /\ length' = Len(input)
  /\ buf' = [i \in 1..Len(input) |-> input[i]]
  /\ initial' = [kind |-> "put", input |-> input, fn |-> "append"]
  /\ committed' = <<Len(input), input>>
  /\ hist' = {<<Len(input), input>>}
  /\ UNCHANGED <<old_value, wloc, rloc, superseded, calls>>

\* faulty variant of RmwInitialBytes: the callback's output on an empty value
RmwInitialBytesMerged(fn, modification) == Merge(fn, <<>>, modification)
\* line 290: RmwInitial copies modification_; cb_ is not called
RmwInitialBytes(fn, modification) == modification

\* RmwContext::RmwInitial on the fresh slot
RmwInitial(fn, modification) ==
  LET bytes == RmwInitialBytes(fn, modification) IN
  /\ ~Published
  /\ control' = 0
  /\ size' = HeaderSize + Len(modification)
  /\ length' = Len(modification)
  /\ buf' = [i \in 1..Len(modification) |-> bytes[i]]
  /\ initial' = [kind |-> "rmwinit", input |-> modification, fn |-> fn]
  /\ committed' = <<Len(modification), modification>>
  /\ hist' = {<<Len(modification), modification>>}
  /\ UNCHANGED <<old_value, wloc, rloc, superseded, calls>>

\* faulty variant of RmwCopy: it also resets the old record's lock word
RmwCopyResettingOld(fn, modification) ==
  LET merged == Merge(fn, Take(old_value.buf, old_value.length), modification) IN
  /\ ~Published
  /\ control' = 0
  /\ length' = Len(merged)
  /\ buf' = merged
  /\ size' = HeaderSize + Len(merged)
  /\ initial' = [kind |-> "rmwcopy", input |-> modification, fn |-> fn]
  /\ old_value' = [old_value EXCEPT !.control = 0]
  /\ committed' = <<Len(merged), merged>>
  /\ hist' = {<<Len(merged), merged>>}
  /\ UNCHANGED <<wloc, rloc, superseded, calls>>
\* RmwContext::RmwCopy(old_value, value) on the fresh slot, lines 292-296:
\* cb_ writes its whole output at value.buffer(), whatever was allocated
RmwCopy(fn, modification) ==
  LET merged == Merge(fn, Take(old_value.buf, old_value.length), modification) IN
  /\ ~Published
  /\ control' = 0
  /\ length' = Len(merged)
  /\ buf' = merged
  /\ size' = HeaderSize + Len(merged)
  /\ initial' = [kind |-> "rmwcopy", input |-> modification, fn |-> fn]
  /\ committed' = <<Len(merged), merged>>
  /\ hist' = {<<Len(merged), merged>>}
  /\ UNCHANGED <<old_value, wloc, rloc, superseded, calls>>

\* ------------------------------------------------ PutAtomic / RmwAtomic
\* entry of PutAtomic(value) with this context's input_ / length_
PutAtomicBegin(t, input) ==
  /\ Published /\ pc[t] \in {"idle", "done"}
  /\ pc' = [pc EXCEPT ![t] = "load"]
  /\ op' = [op EXCEPT ![t] = [kind |-> "put", input |-> input, fn |-> "append"]]
  /\ new_length' = [new_length EXCEPT ![t] = Len(input)]
  /\ ret' = [ret EXCEPT ![t] = FALSE]
  /\ calls' = calls + 1
  /\ UNCHANGED <<slot, expected, idx, rloc, committed, hist, superseded>>

\* entry of RmwAtomic(value) with this context's modification_ / length_ / cb_
RmwAtomicBegin(t, fn, modification) ==
  /\ Published /\ pc[t] \in {"idle", "done"}
  /\ pc' = [pc EXCEPT ![t] = "load"]
  /\ op' = [op EXCEPT ![t] = [kind |-> "rmw", input |-> modification, fn |-> fn]]
  /\ new_length' = [new_length EXCEPT ![t] = 0]
  /\ ret' = [ret EXCEPT ![t] = FALSE]
  /\ calls' = calls + 1
  /\ UNCHANGED <<slot, expected, idx, rloc, committed, hist, superseded>>

\* try_lock, lines 82-87: load the word and build expected
TryLockLoad(t) ==
  /\ pc[t] = "load"
  /\ expected' = [expected EXCEPT ![t] = Expected(control)]
  /\ pc' = [pc EXCEPT ![t] = "cas"]
  /\ UNCHANGED <<slot, op, new_length, idx, ret, rloc, ghost>>

\* try_lock, lines 89-91: the compare-and-swap succeeds
TryLockCasOk(t) ==
  /\ pc[t] = "cas"
  /\ control = expected[t]
  /\ control' = Desired(expected[t])
  /\ pc' = [pc EXCEPT ![t] = "check"]
  /\ expected' = [expected EXCEPT ![t] = 0]
  /\ UNCHANGED <<size, length, buf, initial, old_value, op, new_length, idx, ret, rloc, ghost>>

\* try_lock, lines 92-95, and the caller's loop, lines 227-233 / 299-305:
\* the compare-and-swap fails; expected receives the current word
TryLockCasFail(t) ==
  /\ pc[t] = "cas"
  /\ control # expected[t]
  /\ IF ObservedReplaced(control)
       THEN /\ pc' = [pc EXCEPT ![t] = "done"]
            /\ expected' = [expected EXCEPT ![t] = 0]
            /\ ret' = [ret EXCEPT ![t] = FALSE]
            /\ op' = [op EXCEPT ![t] = NoOp]
            /\ new_length' = [new_length EXCEPT ![t] = 0]
       ELSE /\ pc' = [pc EXCEPT ![t] = "load"]
            /\ expected' = [expected EXCEPT ![t] = control]
            /\ UNCHANGED <<ret, op, new_length>>
  /\ UNCHANGED <<slot, idx, rloc, ghost>>

\* faulty variant of Needed: the dry run counts the modification only
NeededModificationOnly(t) == Len(op[t].input)
\* the length the call needs: length_ (line 234) or the dry run cb_(.., NULL) (line 306)
Needed(t) ==
  IF op[t].kind = "put" THEN Len(op[t].input)
  ELSE Len(Merge(op[t].fn, Take(buf, length), op[t].input))

\* faulty variant of TooSmall: the comparison admits one byte too many
TooSmallOffByOne(sz, needed) == sz + 1 < HeaderSize + needed
\* lines 234 / 307: value.size_ < sizeof(Value) + needed
TooSmall(sz, needed) == sz < HeaderSize + needed

\* lines 234-238 / 306-311 when the slot is too small
CheckTooSmall(t) ==
  /\ pc[t] = "check"
  /\ TooSmall(size, Needed(t))
  /\ new_length' = [new_length EXCEPT ![t] = Needed(t)]
  /\ pc' = [pc EXCEPT ![t] = "unlock_true"]
  /\ UNCHANGED <<slot, op, expected, idx, ret, rloc, ghost>>

\* lines 234 / 306-307 when the slot is large enough
CheckFits(t) ==
  /\ pc[t] = "check"
  /\ ~TooSmall(size, Needed(t))
  /\ new_length' = [new_length EXCEPT ![t] = Needed(t)]
  /\ pc' = [pc EXCEPT ![t] = IF op[t].kind = "put" THEN "len" ELSE "copy"]
  /\ idx' = [idx EXCEPT ![t] = 0]
  /\ UNCHANGED <<slot, op, expected, ret, rloc, ghost>>

\* faulty variant of UnlockTrue: the failure path also resets length_
UnlockTrueClearing(t) ==
  /\ pc[t] = "unlock_true"
  /\ control' = Unlock(control, TRUE)
  /\ length' = 0
  /\ pc' = [pc EXCEPT ![t] = "done"]
  /\ ret' = [ret EXCEPT ![t] = FALSE]
  /\ op' = [op EXCEPT ![t] = NoOp]
  /\ new_length' = [new_length EXCEPT ![t] = 0]
  /\ superseded' = TRUE
  /\ UNCHANGED <<size, buf, initial, old_value, expected, idx, rloc, committed, hist, calls>>
\* faulty variant of UnlockTrue: the failure exit returns without unlocking
UnlockTrueLeavingLocked(t) ==
  /\ pc[t] = "unlock_true"
  /\ pc' = [pc EXCEPT ![t] = "done"]
  /\ ret' = [ret EXCEPT ![t] = FALSE]
  /\ op' = [op EXCEPT ![t] = NoOp]
  /\ new_length' = [new_length EXCEPT ![t] = 0]
  /\ superseded' = TRUE
  /\ UNCHANGED <<slot, expected, idx, rloc, committed, hist, calls>>
\* lines 236-237 / 309-310: unlock(true); return false
UnlockTrue(t) ==
  /\ pc[t] = "unlock_true"
  /\ control' = Unlock(control, TRUE)
  /\ pc' = [pc EXCEPT ![t] = "done"]
  /\ ret' = [ret EXCEPT ![t] = FALSE]
  /\ op' = [op EXCEPT ![t] = NoOp]
  /\ new_length' = [new_length EXCEPT ![t] = 0]
  /\ superseded' = TRUE
  /\ UNCHANGED <<size, length, buf, initial, old_value, expected, idx, rloc, committed, hist, calls>>

\* faulty variant of StoreLength: the in-place update also overwrites size_
StoreLengthAndSize(t) ==
  /\ pc[t] = "len"
  /\ length' = new_length[t]
  /\ size' = HeaderSize + new_length[t]
  /\ pc' = [pc EXCEPT ![t] = IF op[t].kind = "put" THEN "copy" ELSE "unlock_false"]
  /\ UNCHANGED <<control, buf, initial, old_value, op, expected, new_length, idx, ret, rloc, ghost>>
\* line 240 (PutAtomic) / line 314 (RmwAtomic): the store of length_
StoreLength(t) ==
  /\ pc[t] = "len"
  /\ length' = new_length[t]
  /\ pc' = [pc EXCEPT ![t] = IF op[t].kind = "put" THEN "copy" ELSE "unlock_false"]
  /\ UNCHANGED <<control, size, buf, initial, old_value, op, expected, new_length, idx, ret, rloc, ghost>>

\* the bytes the call writes: input_ (line 241) or the callback's output (line 313)
Output(t) ==
  IF op[t].kind = "put" THEN op[t].input
  ELSE Merge(op[t].fn, Take(buf, length), op[t].input)

\* line 241 (memcpy) / line 313 (cb_ writing into buffer()): one byte
CopyByte(t) ==
  /\ pc[t] = "copy"
  /\ idx[t] < new_length[t]
  /\ buf' = StoreByte(buf, idx[t] + 1, Output(t)[idx[t] + 1])
  /\ idx' = [idx EXCEPT ![t] = idx[t] + 1]
  /\ UNCHANGED <<control, size, length, initial, old_value, pc, op, expected, new_length, ret, rloc, ghost>>

\* the copy is complete
CopyDone(t) ==
  /\ pc[t] = "copy"
  /\ idx[t] >= new_length[t]
  /\ idx' = [idx EXCEPT ![t] = 0]
  /\ pc' = [pc EXCEPT ![t] = IF op[t].kind = "put" THEN "unlock_false" ELSE "len"]
  /\ UNCHANGED <<slot, op, expected, new_length, ret, rloc, ghost>>

\* history: the payload the call set out to write, from the latest complete one
Intended(t) ==
  LET bytes == IF op[t].kind = "put" THEN op[t].input
               ELSE Merge(op[t].fn, committed[2], op[t].input)
  IN <<Len(bytes), bytes>>

\* lines 242-243 / 315-316: unlock(false); return true
UnlockFalse(t) ==
  /\ pc[t] = "unlock_false"
  /\ control' = Unlock(control, FALSE)
  /\ pc' = [pc EXCEPT ![t] = "done"]
  /\ ret' = [ret EXCEPT ![t] = TRUE]
  /\ committed' = Intended(t)
  /\ hist' = hist \cup {Intended(t)}
  /\ op' = [op EXCEPT ![t] = NoOp]
  /\ new_length' = [new_length EXCEPT ![t] = 0]
  /\ UNCHANGED <<size, length, buf, initial, old_value, expected, idx, rloc, superseded, calls>>

\* ------------------------------------------------------------ GetAtomic
\* entry of GetAtomic(value)
GetAtomicBegin ==
  /\ Published /\ rpc \in {"idle", "done"}
  /\ rpc' = "before"
  /\ got' = NoGot
  /\ UNCHANGED <<slot, wloc, before, rlength, ghost>>

\* line 173: before = value.gen_lock_.load()
LoadBefore ==
  /\ rpc = "before"
  /\ before' = control
  /\ rpc' = "length"
  /\ UNCHANGED <<slot, wloc, rlength, got, ghost>>

\* lines 174-175: buffer = value.buffer(); length = value.length_
LoadLength ==
  /\ rpc = "length"
  /\ rlength' = length
  /\ rpc' = "after"
  /\ UNCHANGED <<slot, wloc, before, got, ghost>>

\* faulty variant of Stable: the reader also waits until the lock is free
StableAndUnlocked(b, a) == gen_number(b) = gen_number(a) /\ locked(a) = 0
\* line 177: the loop condition on the two loaded words
Stable(b, a) == gen_number(b) = gen_number(a)

\* lines 176-177: after = value.gen_lock_.load(); the generations differ
LoadAfterRetry ==
  /\ rpc = "after"
  /\ ~Stable(before, control)
  /\ rpc' = "before"
  /\ before' = 0 /\ rlength' = 0
  /\ UNCHANGED <<slot, wloc, got, ghost>>

\* lines 176-177: after = value.gen_lock_.load(); the generations agree
LoadAfterStable ==
  /\ rpc = "after"
  /\ Stable(before, control)
  /\ rpc' = "deliver"
  /\ before' = 0
  /\ UNCHANGED <<slot, wloc, rlength, got, ghost>>

\* line 178: cb_(target_, buffer, length, Ok): the callback is entered with
\* a pointer into the slot's buffer and the captured length
Deliver ==
  /\ rpc = "deliver"
  /\ got' = <<rlength, <<>>, FALSE, "Ok">>
  /\ rpc' = "callback"
  /\ rlength' = 0
  /\ UNCHANGED <<slot, wloc, before, ghost>>

\* ReadContext::Get(value), lines 165-167: cb_(target_, buffer(), length_, Ok)
\* without the generation loop
GetRead ==
  /\ Published /\ rpc \in {"idle", "done"}
  /\ got' = <<length, <<>>, FALSE, "Ok">>
  /\ rpc' = "callback"
  /\ UNCHANGED <<slot, wloc, before, rlength, ghost>>

\* the read callback reads one byte through the pointer it was given; the
\* slot's buffer is live, writers' stores fall between these reads
CallbackRead ==
  /\ rpc = "callback"
  /\ Len(got[2]) < got[1]
  /\ got' = [got EXCEPT ![2] = Append(got[2], buf[Len(got[2]) + 1])]
  /\ UNCHANGED <<slot, wloc, rpc, before, rlength, ghost>>

\* the read callback has read its length bytes and returns
CallbackReturn ==
  /\ rpc = "callback"
  /\ Len(got[2]) >= got[1]
  /\ got' = [got EXCEPT ![3] = TRUE]
  /\ rpc' = "done"
  /\ UNCHANGED <<slot, wloc, before, rlength, ghost>>

\* faster_read, lines 405-426, for a key without a record: the store answers
\* NotFound and the callback is called with (NULL, 0, NotFound)
ReadNotFound ==
  /\ ~Published /\ rpc \in {"idle", "done"}
  /\ got' = <<0, <<>>, TRUE, "NotFound">>
  /\ rpc' = "done"
  /\ UNCHANGED <<slot, wloc, before, rlength, ghost>>

\* ------------------------------------------------------- specifications
Create ==
  \/ \E input \in PayloadsOf(InitByte) : Put(input)
  \/ \E fn \in Fns, modification \in PayloadsOf(InitByte) :
       RmwInitial(fn, modification)

WriterBegin(t) ==
  \/ \E input \in PayloadsOf(ByteOf(t)) : PutAtomicBegin(t, input)
  \/ \E fn \in Fns, modification \in PayloadsOf(ByteOf(t)) :
       RmwAtomicBegin(t, fn, modification)

WriterStep(t) ==
  \/ TryLockLoad(t)
  \/ TryLockCasOk(t)
  \/ TryLockCasFail(t)
  \/ CheckTooSmall(t)
  \/ CheckFits(t)
  \/ UnlockTrue(t)
  \/ StoreLength(t)
  \/ CopyByte(t)
  \/ CopyDone(t)
  \/ UnlockFalse(t)

ReaderStep ==
  \/ ReadNotFound
  \/ GetAtomicBegin
  \/ LoadBefore
  \/ LoadLength
  \/ LoadAfterRetry
  \/ LoadAfterStable
  \/ Deliver
  \/ CallbackRead
  \/ CallbackReturn

\* every writer thread makes one in-place call on the published slot while
\* a reader thread calls GetAtomic
Next ==
  \/ Create
  \/ \E t \in Writers : pc[t] = "idle" /\ WriterBegin(t)
  \/ \E t \in Writers : WriterStep(t)
  \/ ReaderStep

Spec == Init /\ [][Next]_vars

\* one caller issuing its operations one after another
NextSeq ==
  \/ Create
  \/ calls < MaxSeqCalls /\ rpc \in {"idle", "done"} /\ WriterBegin("w1")
  \/ WriterStep("w1")
  \/ pc["w1"] \in {"idle", "done"} /\ GetRead
  \/ CallbackRead
  \/ CallbackReturn

SpecSeq == Init /\ [][NextSeq]_vars

\* the slot is made by Put, RmwInitial or, from an earlier record, RmwCopy,
\* and then updated in place by every writer thread
CreateCopy ==
  \E fn \in Fns, modification \in PayloadsOf(InitByte) : RmwCopy(fn, modification)

NextCopy ==
  \/ Create
  \/ CreateCopy
  \/ \E t \in Writers : pc[t] = "idle" /\ WriterBegin(t)
  \/ \E t \in Writers : WriterStep(t)

SpecCopy == InitCopy /\ [][NextCopy]_vars

\* the steps of a GetAtomic call that has begun
ReaderRun ==
  \/ LoadBefore \/ LoadLength \/ LoadAfterRetry \/ LoadAfterStable
  \/ Deliver \/ CallbackRead \/ CallbackReturn

\* the threads of Spec on a slot written by Put (RmwInitial leaves the same
\* slot: lock word 0, size_, length_ and the copied bytes)
NextFair ==
  \/ \E input \in PayloadsOf(InitByte) : Put(input)
  \/ \E t \in Writers : pc[t] = "idle" /\ WriterBegin(t)
  \/ \E t \in Writers : WriterStep(t)
  \/ ReaderStep

\* fair scheduling: a thread that is inside a call is eventually run; the
\* spin loops yield (lines 228, 300) and GetAtomic's loop never waits
SpecFair ==
  /\ Init /\ [][NextFair]_vars
  /\ \A t \in Writers : WF_vars(WriterStep(t))
  /\ WF_vars(ReaderRun)

\* --------------------------------------------------------------- claims
\* writer t holds the lock: it is between a successful try_lock and its unlock
Holding(t) == pc[t] \in {"check", "unlock_true", "len", "copy", "unlock_false"}

\* this step is the return of writer t's call
Returns(t) == pc[t] # "done" /\ pc'[t] = "done"

\* this step is a step of writer t
Steps(t) == pc[t] # pc'[t] \/ idx[t] # idx'[t]

\* no in-place call is in progress
Quiescent == \A t \in Writers : pc[t] \in {"idle", "done"}

\* C1: the (length, bytes) pair GetAtomic hands to the read callback is a pair
\* that the initial write or one in-place update wrote completely: never a
\* new length with old bytes, an old length with new bytes, or a mix of bytes.
\* (The complete payload of an update still in progress is counted as well.)
C1_NoTornRead ==
  (got[3] /\ got[4] = "Ok") => <<got[1], got[2]>> \in
              hist \cup {Intended(t) : t \in {u \in Writers : Holding(u)}}

\* C2: when PutAtomic or RmwAtomic returns success, the lock word it leaves
\* has replaced false and locked false: a successful update does not retire
\* the slot.
C2_SuccessDoesNotRetire ==
  [][\A t \in Writers :
       (Returns(t) /\ ret'[t]) => (replaced(control') = 0 /\ locked(control') = 0)]_vars

\* C3: when a call that holds the lock finds the capacity insufficient, the
\* slot is retired: on return replaced is true, and from then on no call
\* returns success or changes the slot's length or bytes.
C3_TooSmallRetires ==
  [][/\ \A t \in Writers :
          (Returns(t) /\ pc[t] = "unlock_true") => replaced(control') = 1
     /\ superseded =>
          /\ replaced(control) = 1
          /\ \A t \in Writers : Returns(t) => ~ret'[t]
          /\ UNCHANGED <<length, buf>>]_vars

\* C4: operations run one after another on a slot made by the initial write:
\* a call whose (written or merged) length fits the capacity returns success
\* and a read then returns exactly that payload; a call whose length exceeds
\* the capacity returns failure and a read then returns the previous payload.
C4_SequentialRoundTrip ==
  [][\A t \in Writers :
       Returns(t) =>
         IF Intended(t)[1] <= capacity
           THEN ret'[t] /\ Get' = Intended(t)
           ELSE ~ret'[t] /\ Get' = committed]_vars

\* C5: a call that returns failure has written neither length nor any buffer
\* byte, on both failure paths; and whenever no writer holds the lock the
\* stored length and bytes are one complete payload (the latest one written).
C5_FailureLeavesSlot ==
  /\ [][\A t \in Writers :
          (Steps(t) /\ (pc'[t] \in {"load", "cas", "check", "unlock_true"}
                        \/ (pc'[t] = "done" /\ ~ret'[t])))
            => UNCHANGED <<length, buf, size>>]_vars
  /\ []((Published /\ locked(control) = 0) => Get = committed)
C5_Witness ==
  /\ \E t \in Writers : pc[t] = "done" /\ ~ret[t]
  /\ superseded /\ calls = 2 /\ gen_number(control) = 2 /\ Quiescent

\* C6: at most one writer is between a successful try_lock and its unlock, a
\* writer holds the lock only while the word says locked, and once all calls
\* have finished and one reported success the slot holds exactly the complete
\* payload of the last call that reported success.
C6_MutualExclusion ==
  /\ Cardinality({t \in Writers : Holding(t)}) <= 1
  /\ (\E t \in Writers : Holding(t)) => locked(control) = 1
  /\ (Quiescent /\ \E t \in Writers : pc[t] = "done" /\ ret[t])
       => (Get = committed /\ locked(control) = 0)
C6_Witness ==
  /\ pc["w1"] = "done" /\ pc["w2"] = "done" /\ calls = 2
  /\ ret["w1"] /\ ~ret["w2"]
  /\ gen_number(control) = 1

\* C7: once the lock word has replaced true it keeps it through every step of
\* try_lock, unlock, PutAtomic, RmwAtomic and GetAtomic, and no try_lock
\* succeeds on it.
C7_RetirementTerminal ==
  [][replaced(control) = 1 =>
       /\ replaced(control') = 1
       /\ \A t \in Writers : ~(pc[t] = "cas" /\ pc'[t] = "check")]_vars
C7_Witness ==
  /\ replaced(control) = 1 /\ gen_number(control) = 1
  /\ Quiescent /\ calls = 2
  /\ \E t \in Writers : pc[t] = "done" /\ ~ret[t]

\* C8: on a published slot the generation number never decreases: try_lock
\* leaves it unchanged whether it succeeds or fails, and every unlock, on the
\* normal and on the replaced path, increases it by exactly 1 (below the
\* maximum generation); no other step changes it.
C8_GenerationMonotonic ==
  [][(Published /\ gen_number(control) < GenLimit - 1) =>
       /\ gen_number(control') >= gen_number(control)
       /\ gen_number(control') =
            IF \E t \in Writers :
                 pc[t] \in {"unlock_true", "unlock_false"} /\ Returns(t)
              THEN gen_number(control) + 1
              ELSE gen_number(control)]_vars
C8_Witness ==
  /\ gen_number(control) = 2 /\ superseded /\ replaced(control) = 1

\* C9: a call returns failure only from a try_lock that observed replaced or,
\* holding the lock, after finding the capacity smaller than the length it
\* needs; a try_lock that fails without observing replaced (the lock is held)
\* makes the call retry, never return.
C9_FailureOnlyPermanent ==
  [][\A t \in Writers :
       /\ (Returns(t) /\ ~ret'[t]) =>
            \/ pc[t] = "cas" /\ replaced(control) = 1
            \/ /\ pc[t] = "unlock_true" /\ locked(control) = 1
               /\ size < HeaderSize + new_length[t]
       /\ (Steps(t) /\ pc[t] = "cas" /\ replaced(control) = 0) => ~Returns(t)]_vars
C9_Witness ==
  \E t \in Writers :
    /\ pc[t] = "load" /\ locked(expected[t]) = 1
    /\ \E u \in Writers \ {t} : Holding(u)

\* C10 as stated: after RmwInitial the slot holds merge(empty, modification)
\* for every merge function, with generation 0, unlocked and not replaced.
C10_InitialIsMerge ==
  (initial.kind = "rmwinit" /\ calls = 0) =>
    LET m == Merge(initial.fn, <<>>, initial.input)
    IN Get = <<Len(m), m>> /\ control = 0

\* C10 as amended: after RmwInitial the slot holds the modification itself
\* (the merge function is not called), with generation 0, unlocked and not
\* replaced; this is merge(empty, modification) exactly for the merge
\* functions that return the modification on an empty old value.
C10_InitialIsModification ==
  (initial.kind = "rmwinit" /\ calls = 0) =>
    /\ Get = <<Len(initial.input), initial.input>>
    /\ gen_number(control) = 0 /\ locked(control) = 0 /\ replaced(control) = 0
    /\ (Merge(initial.fn, <<>>, initial.input) = initial.input
          => Get[2] = Merge(initial.fn, <<>>, initial.input))
C10_Witness ==
  /\ initial.kind = "rmwinit" /\ initial.fn = "join" /\ calls = 0
  /\ Get = <<2, Fill(InitByte, 2)>>

\* C11: the bytes RmwCopy writes into the new slot's buffer (the merged
\* length) never exceed the buffer space allocated for the slot from the
\* context's value_size(), whatever the old payload, modification and merge.
C11_CopyWithinAllocation ==
  initial.kind = "rmwcopy" => HeaderSize + Len(buf) <= allocated

\* C12: RmwCopy writes merge(old payload, modification) into the new slot and
\* records its length there, and leaves the old slot entirely unchanged: its
\* lock word, capacity, length and buffer bytes are the same after the call.
C12_CopyFrame ==
  [][(initial.kind = "none" /\ initial'.kind = "rmwcopy") =>
       LET merged == Merge(initial'.fn, Take(old_value.buf, old_value.length),
                           initial'.input)
       IN /\ Take(buf', Len(merged)) = merged
          /\ length' = Len(merged)
          /\ old_value' = old_value]_vars
C12_Witness ==
  /\ initial.kind = "rmwcopy" /\ initial.fn = "join" /\ calls = 0
  /\ old_value.length = 2 /\ replaced(old_value.control) = 1
  /\ Get = <<4, <<OldByte, OldByte, Sep, InitByte>> >>

\* C13: the slot's capacity field is immutable after allocation: no step of
\* PutAtomic, RmwAtomic (successful or failed), GetAtomic, try_lock or unlock
\* changes size_; only the initial write on a fresh slot sets it.
C13_CapacityImmutable ==
  [][size' # size =>
       /\ ~Published /\ initial.kind = "none"
       /\ initial'.kind \in {"put", "rmwinit", "rmwcopy"}
       /\ UNCHANGED <<wloc, rloc>>]_vars
C13_Witness ==
  /\ size = HeaderSize + 2 /\ length = 1
  /\ pc["w1"] = "done" /\ ret["w1"] /\ pc["w2"] = "done" /\ ~ret["w2"]
  /\ rpc = "done" /\ got[3] /\ got[4] = "Ok" /\ got[1] = 1

\* C14: unlock(was_replaced) applied to a held word (generation g below the
\* maximum, locked, not replaced) produces in one step exactly the word
\* (g+1, unlocked, replaced = was_replaced): unlock(false) leaves replaced
\* false and unlock(true) sets it.
C14_UnlockResult ==
  [][\A t \in Writers :
       (/\ pc[t] \in {"unlock_true", "unlock_false"} /\ Returns(t)
        /\ locked(control) = 1 /\ replaced(control) = 0
        /\ gen_number(control) < GenLimit - 1)
       => control' = gen_number(control) + 1
                     + (IF pc[t] = "unlock_true" THEN ReplacedBit ELSE 0)]_vars

\* C15 as stated: try_lock reports (success = false, replaced = false) only
\* when the lock is held: after a lost race on a word that is neither locked
\* nor replaced it retries instead of reporting failure. A failing try_lock
\* leaves the word unchanged and a succeeding one changes only locked.
C15_FalseOnlyWhenHeld ==
  [][\A t \in Writers :
       (Steps(t) /\ pc[t] = "cas") =>
         /\ pc'[t] = "load" => locked(control) = 1
         /\ pc'[t] # "check" => control' = control
         /\ pc'[t] = "check" =>
              /\ control' = control + LockedBit
              /\ replaced(control') = 0]_vars

\* C15 as amended: try_lock makes one compare-and-swap and does not retry
\* itself. It reports (false, false) exactly when the word differs from the
\* expected one (the loaded generation, unlocked, not replaced) and is not
\* replaced: the lock is held, or the generation moved since the load (a lost
\* race, the word may then be unlocked); the caller's loop calls try_lock
\* again. A failing try_lock leaves the word unchanged and a succeeding one
\* changes only locked (same generation, replaced false).
C15_SingleCas ==
  [][\A t \in Writers :
       (Steps(t) /\ pc[t] = "cas") =>
         /\ pc'[t] = "load" <=>
              /\ replaced(control) = 0
              /\ locked(control) = 1 \/ gen_number(control) # gen_number(expected[t])
         /\ (pc'[t] = "done" /\ ~ret'[t]) <=> replaced(control) = 1
         /\ pc'[t] # "check" => control' = control
         /\ pc'[t] = "check" =>
              /\ locked(control) = 0 /\ locked(control') = 1
              /\ gen_number(control') = gen_number(control)
              /\ replaced(control') = 0 /\ replaced(control) = 0]_vars
C15_Witness ==
  \E t \in Writers :
    /\ pc[t] = "load" /\ control = expected[t]
    /\ gen_number(expected[t]) = 1
    /\ locked(expected[t]) = 0 /\ replaced(expected[t]) = 0

\* C16: when RmwAtomic holds the lock and the merged length is at most the
\* capacity, it returns success and the slot then holds exactly
\* merge(previous payload, modification) with length equal to the dry run's
\* length; the capacity decision is taken on the dry-run length before any
\* byte of the buffer is written.
C16_RmwAtomicFits ==
  [][\A t \in Writers :
       (Steps(t) /\ op[t].kind = "rmw") =>
         /\ pc[t] = "check" =>
              /\ Get = committed /\ UNCHANGED <<length, buf>>
              /\ new_length'[t] = Intended(t)[1]
              /\ pc'[t] = IF Intended(t)[1] <= capacity THEN "copy" ELSE "unlock_true"
         /\ pc[t] \in {"copy", "len", "unlock_false"} =>
              /\ new_length[t] = Intended(t)[1]
              /\ Returns(t) =>
                   /\ ret'[t] /\ Get' = Intended(t)
                   /\ length' = new_length[t]]_vars
C16_Witness ==
  \E t \in Writers :
    /\ pc[t] = "done" /\ ret[t] /\ gen_number(control) = 2
    /\ initial.input = Fill(InitByte, 2)
    /\ Get = <<2, <<ByteOf(t), InitByte>> >>

\* C17: in every reachable state of a slot, after any sequence and
\* interleaving of Put, RmwInitial, RmwCopy, PutAtomic and RmwAtomic, the
\* recorded length does not exceed the recorded capacity:
\* header size + length <= size field.
C17_LengthWithinSize ==
  Published => HeaderSize + length <= size
C17_Witness ==
  /\ initial.kind = "rmwcopy" /\ size = HeaderSize + 2 * MaxLen + 1
  /\ length = 1 /\ calls = 2 /\ Quiescent
  /\ \E t \in Writers : ret[t]

\* C18: in every reachable state of the lock word locked and replaced are
\* not both true: try_lock sets locked only on a word with replaced false,
\* and both release paths clear locked.
C18_NotLockedAndReplaced ==
  /\ [](~(locked(control) = 1 /\ replaced(control) = 1))
  /\ [][(locked(control) = 0 /\ locked(control') = 1) =>
          (replaced(control) = 0 /\ replaced(control') = 0)]_vars
  /\ [][\A t \in Writers :
          (Returns(t) /\ pc[t] \in {"unlock_true", "unlock_false"}) =>
            (locked(control) = 1 /\ locked(control') = 0)]_vars
C18_Witness ==
  /\ replaced(control) = 1 /\ locked(control) = 0
  /\ \E t \in Writers : pc[t] = "cas" /\ expected[t] = gen_number(control)

\* C19: with finitely many PutAtomic / RmwAtomic calls and fair scheduling of
\* every thread, every call eventually returns, and a call that acquired the
\* lock releases it before it returns, on the success and on the
\* insufficient-capacity exit: a finished call never leaves the lock held.
C19_WriterProgress ==
  /\ \A t \in Writers : (pc[t] \notin {"idle", "done"}) ~> (pc[t] = "done")
  /\ [][\A t \in Writers :
          (Returns(t) /\ Holding(t)) =>
            (locked(control) = 1 /\ locked(control') = 0)]_vars
  /\ [](Quiescent => locked(control) = 0)
C19_Witness ==
  /\ Quiescent /\ calls = 2 /\ gen_number(control) = 2
  /\ ret["w1"] /\ ~ret["w2"] /\ locked(control) = 0

\* C20: GetAtomic never takes or waits for the lock and never writes to the
\* slot; it returns only after a pass in which the generation numbers loaded
\* before and after capturing buffer and length are equal; and under fair
\* scheduling with finitely many in-place updates every GetAtomic call
\* eventually returns, also when the slot is retired or a writer holds the lock.
C20_ReaderProgress ==
  /\ (rpc \notin {"idle", "done"}) ~> (rpc = "done")
  /\ [][rloc' # rloc =>
          /\ UNCHANGED <<slot, wloc>>
          /\ rpc = "after" =>
               (rpc' = IF gen_number(before) = gen_number(control)
                         THEN "deliver" ELSE "before")
          /\ (rpc' = "deliver" /\ rpc # "deliver") => rpc = "after"
          /\ (rpc' = "callback" /\ rpc # "callback") => rpc = "deliver"
          /\ (rpc' = "done" /\ rpc # "done" /\ Published) => rpc = "callback"]_vars
C20_Witness ==
  /\ rpc = "done" /\ got[3] /\ got[4] = "Ok" /\ locked(control) = 1
  /\ \E t \in Writers :
       /\ pc[t] = "copy" /\ idx[t] = 0 /\ op[t].kind = "put"
       /\ length = new_length[t] /\ length # committed[1]
       /\ got[1] = length

====
